---- MODULE Spec2Model ----
(***************************************************************************)
(* generate-icons.py: generate_app_icons(logo_path).                       *)
(*                                                                         *)
(* The procedure is modelled statement by statement.  pc names the next    *)
(* statement of generate_app_icons; fs and dirs are the file system the    *)
(* procedure reads and writes; logo, foreground, logo_resized and resized  *)
(* are its local images.  An image is not a pixel array but the data that  *)
(* determines its pixels: its size, its mode, the source it was resampled  *)
(* from (id and the sizes it went through), the alpha level of its         *)
(* content, and the rectangle of the canvas that holds content (every      *)
(* pixel outside that rectangle has the background of the canvas).         *)
(***************************************************************************)
EXTENDS Integers, Sequences, FiniteSets, TLC

VARIABLES
    pc,            \* next statement of generate_app_icons
    logo_path,     \* the argument
    fs,            \* path -> file
    dirs,          \* the directories that exist
    logo,          \* the image object returned by Image.open
    idx,           \* position in android_sizes or favicon_sizes
    padded_size, padding,
    foreground, logo_resized, resized,
    log,           \* what print() has emitted in this call
    written,       \* the paths save() has completed in this call, in order
    made,          \* the directories makedirs created in this call
    io_error,      \* the I/O error that ended this call: "none", "env" (a
                   \* fault of the environment) or "nodir" (a save into a
                   \* directory that does not exist)
    start,         \* fs and dirs when this call began
    prev,          \* how the previous call began and ended
    run            \* number of the current call

vars == <<pc, logo_path, fs, dirs, logo, idx, padded_size, padding,
          foreground, logo_resized, resized, log, written, made, io_error,
          start, prev, run>>

(***************************************************************************)
(* Bounds of the model.                                                    *)
(***************************************************************************)
MaxSrcSide == 2     \* source images are w x h with w, h in 1..MaxSrcSide
MaxRuns == 2        \* generate_app_icons is called at most MaxRuns times

(***************************************************************************)
(* The tables and paths of the program.                                    *)
(***************************************************************************)
android_sizes ==
    << <<36, "ldpi">>, <<48, "mdpi">>, <<72, "hdpi">>,
       <<96, "xhdpi">>, <<144, "xxhdpi">>, <<192, "xxxhdpi">> >>

favicon_sizes == <<16, 32, 48, 64, 128, 256>>

DefaultLogoPath == "www/assets/images/logo.png"

android_icon_dir == "android/app/src/main/res"

icon_dir(density) == android_icon_dir \o "/mipmap-" \o density

LauncherPath(density) == icon_dir(density) \o "/ic_launcher.png"
RoundPath(density) == icon_dir(density) \o "/ic_launcher_round.png"
ForegroundPath(density) == icon_dir(density) \o "/ic_launcher_foreground.png"

WebDir == "www/assets/images"
FaviconPath(size) == WebDir \o "/favicon-" \o ToString(size) \o ".png"

Densities == {android_sizes[i][2] : i \in 1..Len(android_sizes)}
FaviconSet == {favicon_sizes[j] : j \in 1..Len(favicon_sizes)}
SizeOf(density) ==
    android_sizes[CHOOSE i \in 1..Len(android_sizes) :
                    android_sizes[i][2] = density][1]

AndroidPaths ==
    UNION {{LauncherPath(d), RoundPath(d), ForegroundPath(d)} : d \in Densities}
FaviconPaths == {FaviconPath(n) : n \in FaviconSet}
OutputPaths == AndroidPaths \cup FaviconPaths

\* The order in which a complete call saves its outputs.
RECURSIVE AndroidOrder(_)
AndroidOrder(i) ==
    IF i > Len(android_sizes) THEN << >>
    ELSE << LauncherPath(android_sizes[i][2]), RoundPath(android_sizes[i][2]),
            ForegroundPath(android_sizes[i][2]) >> \o AndroidOrder(i + 1)

RECURSIVE FaviconOrder(_)
FaviconOrder(j) ==
    IF j > Len(favicon_sizes) THEN << >>
    ELSE << FaviconPath(favicon_sizes[j]) >> \o FaviconOrder(j + 1)

OutputOrder == AndroidOrder(1) \o FaviconOrder(1)

(***************************************************************************)
(* Directories.  ParentOf gives the directory a path is created in;        *)
(* Ancestors(d) is d with every directory above it, which is what          *)
(* os.makedirs creates.                                                    *)
(***************************************************************************)
CustomLogoPath == "branding/logo.png"

SourcePaths ==
    {DefaultLogoPath, CustomLogoPath, FaviconPath(16), LauncherPath("ldpi")}

AllPaths == OutputPaths \cup SourcePaths

AndroidChain ==
    {"android", "android/app", "android/app/src", "android/app/src/main",
     android_icon_dir}

WebChain == {"www", "www/assets", WebDir}

Ancestors(d) ==
    IF d \in {icon_dir(x) : x \in Densities} THEN AndroidChain \cup {d}
    ELSE IF d = WebDir THEN WebChain
    ELSE {d}

ParentOf(path) ==
    IF path \in AndroidPaths
    THEN icon_dir(CHOOSE d \in Densities :
                    path \in {LauncherPath(d), RoundPath(d), ForegroundPath(d)})
    ELSE IF path \in FaviconPaths \cup {DefaultLogoPath} THEN WebDir
    ELSE "branding"

(***************************************************************************)
(* Images.  w, h: size in pixels.  mode: "RGB" (no alpha channel) or       *)
(* "RGBA".  id and hist: the picture the content was resampled from and    *)
(* the sizes it had on the way.  a: alpha level of the content (255 where  *)
(* the mode has no alpha channel).  bx, by, bw, bh: the rectangle that     *)
(* holds the content; bg: the alpha of every pixel outside it.             *)
(***************************************************************************)
Img(w, h, mode, a, id, hist) ==
    [w |-> w, h |-> h, mode |-> mode, a |-> a, id |-> id, hist |-> hist,
     bx |-> 0, by |-> 0, bw |-> w, bh |-> h, bg |-> 0]

NoImage == Img(0, 0, "", 0, 0, << >>)

\* Alpha of pixel (x, y) of image im, 0 <= x < im.w, 0 <= y < im.h.
AlphaAt(im, x, y) ==
    IF im.mode # "RGBA" THEN 255
    ELSE IF /\ im.bx <= x /\ x < im.bx + im.bw
            /\ im.by <= y /\ y < im.by + im.bh
         THEN im.a
         ELSE im.bg

\* Variant: the canvas is created opaque, (0, 0, 0, 255).
NewOpaque(size) ==
    [w |-> size, h |-> size, mode |-> "RGBA", a |-> 0, id |-> 0,
     hist |-> << >>, bx |-> 0, by |-> 0, bw |-> 0, bh |-> 0, bg |-> 255]

\* Image.new('RGBA', (size, size), (0, 0, 0, 0))
NewTransparent(size) ==
    [w |-> size, h |-> size, mode |-> "RGBA", a |-> 0, id |-> 0,
     hist |-> << >>, bx |-> 0, by |-> 0, bw |-> 0, bh |-> 0, bg |-> 0]

\* Variant: a resize that keeps the aspect ratio of im (as thumbnail does).
ResizeKeepAspect(im, size) ==
    [w |-> size, h |-> ((size * im.h) \div im.w), mode |-> im.mode,
     a |-> im.a, id |-> im.id, hist |-> Append(im.hist, <<im.w, im.h>>),
     bx |-> 0, by |-> 0, bw |-> size, bh |-> ((size * im.h) \div im.w),
     bg |-> 0]

\* im.resize((size, size), LANCZOS): a new size x size image of the same
\* mode, resampled from all of im; im itself is left as it is.
Resize(im, size) ==
    Img(size, size, im.mode, im.a, im.id, Append(im.hist, <<im.w, im.h>>))

\* im.convert('RGBA'): an image without alpha channel gets an opaque one.
ConvertRGBA(im) ==
    IF im.mode = "RGBA" THEN im
    ELSE [im EXCEPT !.mode = "RGBA", !.a = 255]

Min(m, n) == IF m < n THEN m ELSE n
Max(m, n) == IF m > n THEN m ELSE n

\* Pillow's 8-bit blend of in1 and in2 under mask (division by 255, rounded).
Blend8(mask, in1, in2) ==
    LET tmp == in1 * (255 - mask) + in2 * mask + 128
    IN  ((tmp \div 256) + tmp) \div 256

\* canvas.paste(im, (x, y), mask) on a canvas that holds no content yet:
\* the pixels of the canvas inside the box of im at (x, y), clipped to the
\* canvas, are blended with those of im under the alpha band of mask; all
\* other pixels of the canvas keep their value.
Paste(canvas, im, x, y, mask) ==
    LET x0 == Max(x, 0)
        y0 == Max(y, 0)
        x1 == Min(x + im.w, canvas.w)
        y1 == Min(y + im.h, canvas.h)
    IN  [canvas EXCEPT
            !.a = Blend8(AlphaAt(mask, 0, 0), canvas.bg, AlphaAt(im, 0, 0)),
            !.id = im.id, !.hist = im.hist,
            !.bx = x0, !.by = y0,
            !.bw = Max(x1 - x0, 0), !.bh = Max(y1 - y0, 0)]

(***************************************************************************)
(* Files.  st: "absent" (no file at the path), "png" (a complete image     *)
(* file), "garbage" (a file that is no image: Image.open raises),          *)
(* "truncated" (an image file whose header is intact and whose pixel data  *)
(* is cut short: Image.open succeeds, the first load of the pixels         *)
(* raises).                                                                *)
(***************************************************************************)
NoFile == [st |-> "absent", img |-> NoImage]
PngFile(im) == [st |-> "png", img |-> im]
TruncatedFile(im) == [st |-> "truncated", img |-> im]
GarbageFile == [st |-> "garbage", img |-> NoImage]

\* os.path.exists(path)
Exists(f, path) == f[path].st # "absent"

\* int(size * 0.7).  The double nearest 0.7 is below 0.7 by less than
\* 2^-54, and for every size used here size * 7 / 10 is at least 0.2 away
\* from an integer, so the truncated product is the integer quotient.
PaddedSize(size) == (size * 7) \div 10

\* Variant: the half is rounded up.
PaddingRoundUp(size, padded) == (size - padded + 1) \div 2

\* (size - padded_size) // 2
Padding(size, padded) == (size - padded) \div 2

(***************************************************************************)
(* The image object of Image.open.  Pillow opens lazily: open reads the    *)
(* header, and the pixel data is read from the file by the first           *)
(* operation that needs it (here the first resize).                        *)
(***************************************************************************)
NoLogo == [open |-> FALSE, loaded |-> FALSE, img |-> NoImage]

\* Image.open(path) raises for a file that is no image.
OpenRaises(f, path) == f[path].st \notin {"png", "truncated"}

ImageOpen(f, path) == [open |-> TRUE, loaded |-> FALSE, img |-> f[path].img]

\* Image.load(), called by resize: raises when the pixel data is cut short.
LoadRaises(lg, f, path) == ~lg.loaded /\ f[path].st # "png"

Load(lg, f, path) ==
    IF lg.loaded THEN lg
    ELSE [open |-> TRUE, loaded |-> TRUE, img |-> f[path].img]

(***************************************************************************)
(* os.makedirs(d, exist_ok) and Image.save(path).  Both can fail for       *)
(* reasons of the environment (permissions, full disk): the outcome is     *)
(* chosen nondeterministically.  A save into a directory that does not     *)
(* exist always fails.  A failed save leaves the file as it was ("fail")   *)
(* or leaves an incomplete file ("partial").                               *)
(***************************************************************************)
\* Variant: makedirs without exist_ok raises on a directory that exists.
MakedirsRaisesIfPresent(d, ds, exist_ok) == d \in ds

MakedirsRaises(d, ds, exist_ok) == d \in ds /\ ~exist_ok

MakedirsOutcomes == {"ok", "fail"}

SaveOutcomes(path, ds) ==
    IF ParentOf(path) \in ds THEN {"ok", "fail", "partial"} ELSE {"nodir"}

FsAfterSave(f, im, path, o) ==
    CASE o = "ok"      -> [f EXCEPT ![path] = PngFile(im)]
      [] o = "partial" -> [f EXCEPT ![path] = TruncatedFile(im)]
      [] OTHER         -> f

IoErrorOf(o, e) ==
    CASE o \in {"fail", "partial"} -> "env"
      [] o = "nodir"               -> "nodir"
      [] OTHER                     -> e

\* Variant: a failing statement is skipped and the call goes on.
AfterStepSwallow(ok, next) == next

\* Nothing in generate_app_icons catches an exception: a statement that
\* raises ends the call.
AfterStep(ok, next) == IF ok THEN next ELSE "raised"

Terminal == {"returned", "done", "raised"}

(***************************************************************************)
(* Initial states: the argument, the source file at that path and the      *)
(* outputs a previous generation from another logo may have left.          *)
(***************************************************************************)
SrcPixelKinds ==
    {[mode |-> "RGB", a |-> 255], [mode |-> "RGBA", a |-> 255],
     [mode |-> "RGBA", a |-> 128]}

SourceImages ==
    {Img(w, h, k.mode, k.a, 1, << >>) :
        w \in 1..MaxSrcSide, h \in 1..MaxSrcSide, k \in SrcPixelKinds}

SourceFiles ==
    {NoFile, GarbageFile, TruncatedFile(Img(1, 1, "RGBA", 255, 1, << >>))}
        \cup {PngFile(im) : im \in SourceImages}

OtherLogo == Img(1, 1, "RGBA", 255, 2, << >>)

\* The foreground image lines 33-44 build from a source image.
ForegroundOf(im, size) ==
    LET ps == PaddedSize(size)
        pd == Padding(size, ps)
        lr == ConvertRGBA(Resize(im, ps))
    IN  Paste(NewTransparent(size), lr, pd, pd, lr)

StaleFile(path) ==
    IF path \in FaviconPaths
    THEN PngFile(Resize(OtherLogo,
                        CHOOSE n \in FaviconSet : FaviconPath(n) = path))
    ELSE LET d == CHOOSE x \in Densities : ParentOf(path) = icon_dir(x)
         IN  IF path = ForegroundPath(d)
             THEN PngFile(ForegroundOf(OtherLogo, SizeOf(d)))
             ELSE PngFile(Resize(OtherLogo, SizeOf(d)))

DirsOf(f) == UNION {Ancestors(ParentOf(p)) : p \in {q \in AllPaths : Exists(f, q)}}

Init ==
    /\ logo_path \in SourcePaths
    /\ \E stale \in BOOLEAN, src \in SourceFiles :
          fs = [p \in AllPaths |->
                  IF p = logo_path THEN src
                  ELSE IF stale /\ p \in OutputPaths THEN StaleFile(p)
                  ELSE NoFile]
    /\ dirs = DirsOf(fs)
    /\ pc = "exists"
    /\ logo = NoLogo
    /\ idx = 0
    /\ padded_size = 0
    /\ padding = 0
    /\ foreground = NoImage
    /\ logo_resized = NoImage
    /\ resized = NoImage
    /\ log = << >>
    /\ written = << >>
    /\ made = {}
    /\ io_error = "none"
    /\ start = [fs |-> fs, dirs |-> dirs]
    /\ prev = [pc |-> "none", src |-> NoFile,
               fs |-> fs, dirs |-> dirs]
    /\ run = 1

Msg(m, arg) == [msg |-> m, arg |-> arg]

size == android_sizes[idx][1]
density == android_sizes[idx][2]
favicon_size == favicon_sizes[idx]

history == <<start, prev, run>>
locals == <<padded_size, padding, foreground, logo_resized, resized>>
effects == <<fs, dirs, written, made, io_error>>

\* Variant: no check of the source path before it is opened.
CheckExistsSkipped ==
    /\ pc = "exists"
    /\ pc' = "open"
    /\ UNCHANGED <<logo_path, logo, idx, locals, log, effects, history>>

\* line 7-10: the source must exist; otherwise say so and return
CheckExists ==
    /\ pc = "exists"
    /\ IF Exists(fs, logo_path)
       THEN /\ pc' = "open"
            /\ log' = log
       ELSE /\ pc' = "returned"
            /\ log' = log \o << Msg("Please add your logo as", logo_path),
                                Msg("Recommended", "512x512 PNG") >>
    /\ UNCHANGED <<logo_path, logo, idx, locals, effects, history>>

\* line 13: logo = Image.open(logo_path)
OpenLogo ==
    /\ pc = "open"
    /\ pc' = AfterStep(~OpenRaises(fs, logo_path), "makedirs")
    /\ IF OpenRaises(fs, logo_path)
       THEN UNCHANGED <<logo, idx>>
       ELSE /\ logo' = ImageOpen(fs, logo_path)
            /\ idx' = 1
    /\ UNCHANGED <<logo_path, locals, log, effects, history>>

\* line 29-30: os.makedirs(icon_dir, exist_ok=True)
MakeDirs ==
    /\ pc = "makedirs"
    /\ \E o \in MakedirsOutcomes :
          LET d == icon_dir(density)
              ok == o = "ok" /\ ~MakedirsRaises(d, dirs, TRUE)
          IN  /\ pc' = AfterStep(ok, "pad")
              /\ dirs' = IF ok THEN dirs \cup Ancestors(d) ELSE dirs
              /\ made' = IF ok THEN made \cup (Ancestors(d) \ dirs) ELSE made
              /\ io_error' = IF o = "fail" THEN "env" ELSE io_error
    /\ UNCHANGED <<logo_path, logo, idx, locals, log, fs, written, history>>

\* line 33-34
ComputePadding ==
    /\ pc = "pad"
    /\ padded_size' = PaddedSize(size)
    /\ padding' = Padding(size, PaddedSize(size))
    /\ pc' = "new"
    /\ UNCHANGED <<logo_path, logo, idx, foreground, logo_resized, resized,
                   log, effects, history>>

\* line 37
NewForeground ==
    /\ pc = "new"
    /\ foreground' = NewTransparent(size)
    /\ pc' = "resize_padded"
    /\ UNCHANGED <<logo_path, logo, idx, padded_size, padding, logo_resized,
                   resized, log, effects, history>>

\* line 38: logo_resized = logo.resize((padded_size, padded_size), LANCZOS)
ResizePadded ==
    /\ pc = "resize_padded"
    /\ pc' = AfterStep(~LoadRaises(logo, fs, logo_path), "convert")
    /\ IF LoadRaises(logo, fs, logo_path)
       THEN UNCHANGED <<logo, logo_resized>>
       ELSE /\ logo' = Load(logo, fs, logo_path)
            /\ logo_resized' = Resize(Load(logo, fs, logo_path).img, padded_size)
    /\ UNCHANGED <<logo_path, idx, padded_size, padding, foreground, resized,
                   log, effects, history>>

\* line 41-42
ConvertLogo ==
    /\ pc = "convert"
    /\ logo_resized' = IF logo_resized.mode # "RGBA"
                       THEN ConvertRGBA(logo_resized)
                       ELSE logo_resized
    /\ pc' = "paste"
    /\ UNCHANGED <<logo_path, logo, idx, padded_size, padding, foreground,
                   resized, log, effects, history>>

\* line 44: foreground.paste(logo_resized, (padding, padding), logo_resized)
PasteLogo ==
    /\ pc = "paste"
    /\ foreground' = Paste(foreground, logo_resized, padding, padding,
                           logo_resized)
    /\ pc' = "resize_full"
    /\ UNCHANGED <<logo_path, logo, idx, padded_size, padding, logo_resized,
                   resized, log, effects, history>>

\* line 47: resized = logo.resize((size, size), LANCZOS)
ResizeFull ==
    /\ pc = "resize_full"
    /\ pc' = AfterStep(~LoadRaises(logo, fs, logo_path), "save_launcher")
    /\ IF LoadRaises(logo, fs, logo_path)
       THEN UNCHANGED <<logo, resized>>
       ELSE /\ logo' = Load(logo, fs, logo_path)
            /\ resized' = Resize(Load(logo, fs, logo_path).img, size)
    /\ UNCHANGED <<logo_path, idx, padded_size, padding, foreground,
                   logo_resized, log, effects, history>>

\* im.save(path), then continue at next
Save(im, path, next) ==
    /\ \E o \in SaveOutcomes(path, dirs) :
          /\ fs' = FsAfterSave(fs, im, path, o)
          /\ written' = IF o = "ok" THEN Append(written, path) ELSE written
          /\ io_error' = IoErrorOf(o, io_error)
          /\ pc' = AfterStep(o = "ok", next)
    /\ UNCHANGED <<logo_path, logo, idx, locals, log, dirs, made, history>>

\* line 48
SaveLauncher ==
    /\ pc = "save_launcher"
    /\ Save(resized, LauncherPath(density), "save_round")

\* Variant: the round icon is written from the padded foreground image.
SaveRoundFromForeground ==
    /\ pc = "save_round"
    /\ Save(foreground, RoundPath(density), "save_foreground")

\* line 49
SaveRound ==
    /\ pc = "save_round"
    /\ Save(resized, RoundPath(density), "save_foreground")

\* line 52
SaveForeground ==
    /\ pc = "save_foreground"
    /\ Save(foreground, ForegroundPath(density), "print_android")

\* line 54, and the end of the loop body of line 28
PrintAndroid ==
    /\ pc = "print_android"
    /\ log' = Append(log, Msg("Generated icons for", density))
    /\ IF idx < Len(android_sizes)
       THEN /\ idx' = idx + 1
            /\ pc' = "makedirs"
       ELSE /\ idx' = 1
            /\ pc' = "favicon_resize"
    /\ UNCHANGED <<logo_path, logo, locals, effects, history>>

\* line 59
ResizeFavicon ==
    /\ pc = "favicon_resize"
    /\ pc' = AfterStep(~LoadRaises(logo, fs, logo_path), "favicon_save")
    /\ IF LoadRaises(logo, fs, logo_path)
       THEN UNCHANGED <<logo, resized>>
       ELSE /\ logo' = Load(logo, fs, logo_path)
            /\ resized' = Resize(Load(logo, fs, logo_path).img, favicon_size)
    /\ UNCHANGED <<logo_path, idx, padded_size, padding, foreground,
                   logo_resized, log, effects, history>>

\* line 60
SaveFavicon ==
    /\ pc = "favicon_save"
    /\ Save(resized, FaviconPath(favicon_size), "favicon_print")

\* line 61, and the end of the loop body of line 58
PrintFavicon ==
    /\ pc = "favicon_print"
    /\ log' = Append(log, Msg("Generated favicon", ToString(favicon_size)))
    /\ IF idx < Len(favicon_sizes)
       THEN /\ idx' = idx + 1
            /\ pc' = "favicon_resize"
       ELSE /\ idx' = idx
            /\ pc' = "final"
    /\ UNCHANGED <<logo_path, logo, locals, effects, history>>

\* line 63-67
PrintFinal ==
    /\ pc = "final"
    /\ log' = Append(log, Msg("All app icons generated!", ""))
    /\ pc' = "done"
    /\ UNCHANGED <<logo_path, logo, idx, locals, effects, history>>

\* The caller calls generate_app_icons again with the same argument, after a
\* call that no fault of the environment has cut short.
CallAgain ==
    /\ pc \in Terminal
    /\ io_error # "env"
    /\ run < MaxRuns
    /\ prev' = [pc |-> pc, src |-> start.fs[logo_path],
                fs |-> fs, dirs |-> dirs]
    /\ start' = [fs |-> fs, dirs |-> dirs]
    /\ run' = run + 1
    /\ pc' = "exists"
    /\ logo' = NoLogo
    /\ idx' = 0
    /\ padded_size' = 0
    /\ padding' = 0
    /\ foreground' = NoImage
    /\ logo_resized' = NoImage
    /\ resized' = NoImage
    /\ log' = << >>
    /\ written' = << >>
    /\ made' = {}
    /\ io_error' = "none"
    /\ UNCHANGED <<logo_path, fs, dirs>>

Next ==
    \/ CheckExists
    \/ OpenLogo
    \/ MakeDirs
    \/ ComputePadding
    \/ NewForeground
    \/ ResizePadded
    \/ ConvertLogo
    \/ PasteLogo
    \/ ResizeFull
    \/ SaveLauncher
    \/ SaveRound
    \/ SaveForeground
    \/ PrintAndroid
    \/ ResizeFavicon
    \/ SaveFavicon
    \/ PrintFavicon
    \/ PrintFinal
    \/ CallAgain

Spec == Init /\ [][Next]_vars

(***************************************************************************)
(* Properties.                                                             *)
(***************************************************************************)
Range(seq) == {seq[k] : k \in 1..Len(seq)}

IsPrefix(a, b) == Len(a) <= Len(b) /\ a = SubSeq(b, 1, Len(a))

AndroidLoop ==
    {"makedirs", "pad", "new", "resize_padded", "convert", "paste",
     "resize_full", "save_launcher", "save_round", "save_foreground",
     "print_android"}

FaviconLoop == {"favicon_resize", "favicon_save", "favicon_print"}

AfterAndroid == FaviconLoop \cup {"final", "done"}

SourceMissing == start.fs[logo_path].st = "absent"
SourceDecodable == start.fs[logo_path].st = "png"
SourceUndecodable == start.fs[logo_path].st \in {"garbage", "truncated"}

MissingReport ==
    << Msg("Please add your logo as", logo_path),
       Msg("Recommended", "512x512 PNG") >>

FinalMsg == Msg("All app icons generated!", "")

NothingProduced ==
    /\ fs = start.fs
    /\ dirs = start.dirs
    /\ written = << >>
    /\ made = {}

\* C1: a call whose source path does not exist never raises; it ends by
\* returning after it has reported the path, and creates no directory and
\* no file (nothing under android/, no favicon).
C1_MissingSourceReturns ==
    SourceMissing =>
        /\ pc \in {"exists", "returned"}
        /\ NothingProduced
        /\ pc = "returned" => log = MissingReport

C1_Witness ==
    /\ pc = "returned"
    /\ SourceMissing
    /\ log = MissingReport
    /\ logo_path = DefaultLogoPath

\* C2: once the Android loop has completed, each density directory holds
\* ic_launcher.png, ic_launcher_round.png and ic_launcher_foreground.png,
\* each a complete image of exactly s x s pixels for the s of the density,
\* whatever the width and height of the source.
C2_AndroidIconsSquare ==
    pc \in AfterAndroid =>
        \A i \in 1..Len(android_sizes) :
            \A p \in {LauncherPath(android_sizes[i][2]),
                       RoundPath(android_sizes[i][2]),
                       ForegroundPath(android_sizes[i][2])} :
                /\ fs[p].st = "png"
                /\ fs[p].img.w = android_sizes[i][1]
                /\ fs[p].img.h = android_sizes[i][1]

C2_Witness ==
    /\ pc = "done"
    /\ logo.img.w # logo.img.h
    /\ fs[LauncherPath("xxxhdpi")].img.w = 192
    /\ fs[LauncherPath("xxxhdpi")].img.h = 192

InCenteredSquare(s, x, y) ==
    LET paddedSize == (s * 7) \div 10
        offset == (s - paddedSize) \div 2
    IN  /\ offset <= x /\ x < offset + paddedSize
        /\ offset <= y /\ y < offset + paddedSize

\* C3: the ic_launcher_foreground.png just written for a size s is s x s and
\* every pixel of it outside the centered square [offset, offset+paddedSize)
\* x [offset, offset+paddedSize) has alpha 0, for a source with or without
\* an alpha channel.
C3_ForegroundBorderTransparent ==
    pc = "print_android" =>
        LET f == fs[ForegroundPath(density)].img
        IN  /\ f.w = size /\ f.h = size
            /\ \A x \in 0..(size - 1), y \in 0..(size - 1) :
                  ~InCenteredSquare(size, x, y) => AlphaAt(f, x, y) = 0

C3_Witness ==
    /\ pc = "print_android"
    /\ size = 192
    /\ logo.img.mode = "RGB"
    /\ AlphaAt(fs[ForegroundPath(density)].img, 29, 29) = 255
    /\ AlphaAt(fs[ForegroundPath(density)].img, 28, 29) = 0

\* C4: for every density whose ic_launcher_round.png this call has written,
\* ic_launcher.png and ic_launcher_round.png are complete files with the
\* same content.
C4_LauncherRoundIdentical ==
    \A d \in Densities :
        RoundPath(d) \in Range(written) =>
            /\ fs[RoundPath(d)].st = "png"
            /\ fs[LauncherPath(d)] = fs[RoundPath(d)]

C4_Witness ==
    /\ pc = "done"
    /\ \A d \in Densities : RoundPath(d) \in Range(written)
    /\ fs[LauncherPath("hdpi")].img.w = 72

\* C5: a call with an existing, decodable source at any source path, which
\* no fault of the environment interrupts, ends with favicon-<N>.png
\* present and N x N for every favicon size N; the favicon loop is entered
\* only after the eighteen Android files have been written.
C5_FaviconsWritten ==
    /\ (pc \in Terminal /\ SourceDecodable /\ io_error # "env") =>
            \A n \in FaviconSet :
                /\ fs[FaviconPath(n)].st = "png"
                /\ fs[FaviconPath(n)].img.w = n
                /\ fs[FaviconPath(n)].img.h = n
    /\ pc \in FaviconLoop =>
            IsPrefix(AndroidOrder(1), written)

\* C6: a second call with the same argument, whose source file is the same
\* at its start as at the start of the call before, and which no fault of
\* the environment interrupts, ends the way the call before ended and
\* leaves exactly the files, contents and directories the call before left.
C6_SecondRunSameOutput ==
    (/\ run >= 2
     /\ pc \in Terminal
     /\ io_error # "env"
     /\ start.fs[logo_path] = prev.src) =>
        /\ pc = prev.pc
        /\ fs = prev.fs
        /\ dirs = prev.dirs

C6_Witness ==
    /\ run = 2
    /\ pc = "done"
    /\ prev.pc = "done"
    /\ start.fs[logo_path] = prev.src
    /\ Len(written) = Len(OutputOrder)
    /\ fs = prev.fs

\* C7: the file at the source path has, in every state of a call, the
\* content it had when the call began, also when the source path is one of
\* the output paths.
C7_SourceFileUnchanged == fs[logo_path] = start.fs[logo_path]

\* C8: a call whose source exists but cannot be decoded ends like a call
\* with a missing source, by returning, and creates no directory and no
\* file, whether the failure shows at open or at the first resize.
C8_UndecodableSourceReturns ==
    SourceUndecodable =>
        /\ pc \in Terminal => pc = "returned"
        /\ NothingProduced

\* C9: a failed makedirs or save ends the call at once by raising: the
\* files written are always a prefix of the fixed output order, a call that
\* has met an I/O error is in no other state than raised, and a call that
\* raised has not emitted the final notification.
C9_IoErrorAborts ==
    /\ IsPrefix(written, OutputOrder)
    /\ io_error # "none" => pc = "raised"
    /\ pc = "raised" => FinalMsg \notin Range(log)

C9_Witness ==
    /\ pc = "raised"
    /\ io_error = "env"
    /\ Len(written) = 20
    /\ fs[FaviconPath(48)].st = "truncated"

\* C10: for the pixelSize of the current Android entry, padded_size is
\* floor(pixelSize * 0.7) and padding is floor((pixelSize - padded_size)/2),
\* padding >= 0, padded_size > 0, 2 * padding + padded_size <= pixelSize
\* with a residual of 0 or 1, and the pasted image is not clipped by the
\* canvas.
C10_PaddingFits ==
    /\ pc \in (AndroidLoop \ {"makedirs", "pad"}) =>
            /\ padded_size = (size * 7) \div 10
            /\ padding = (size - padded_size) \div 2
            /\ padding >= 0
            /\ padded_size > 0
            /\ padding * 2 + padded_size <= size
            /\ size - (padding * 2 + padded_size) \in {0, 1}
    /\ pc \in {"resize_full", "save_launcher", "save_round",
                "save_foreground", "print_android"} =>
            /\ foreground.bx = padding /\ foreground.by = padding
            /\ foreground.bw = padded_size /\ foreground.bh = padded_size
            /\ foreground.bx + foreground.bw <= foreground.w
            /\ foreground.by + foreground.bh <= foreground.h

C10_Witness ==
    /\ pc = "resize_full"
    /\ size = 36
    /\ padded_size = 25
    /\ padding = 5
    /\ size - (padding * 2 + padded_size) = 1

====
